---- MODULE Spec2Model ----
(***************************************************************************)
(* iDM heat pump integration: the register catalog (const.py), the wire    *)
(* codec and register accessor (coordinator.py) and the poll cycle         *)
(* (_fetch_data), modelled over a Modbus device whose memory is a map from *)
(* addresses to 16-bit words.                                              *)
(***************************************************************************)
EXTENDS Integers, Sequences, FiniteSets, TLC

VARIABLES
    device,        \* device memory: address -> 16-bit word
    deviceUp,      \* the device accepts TCP connections and answers requests
    faultAddr,     \* a read request starting at this address fails ...
    faultMode,     \* ... in this way ("none": no request fails)
    connected,     \* self.client: socket opened by connect(), closed by close()
    fetchPc,       \* position of the worker thread inside _fetch_data
    fetchConn,     \* how connect() of the latest poll cycle ended
    fetchLocal,    \* what _fetch_data is about to return
    fetchResult,   \* how the latest _fetch_data ended: returned or raised
    data,          \* coordinator.data: the published snapshot
    busLog,        \* bus requests issued by the latest operation, in order
    lastOp,        \* the latest accessor call: name, key, value, return value
    nWrites,       \* accessor write calls so far
    writePc,       \* position of an entity or service handler that writes
    writeJob,      \* the write that handler submitted to the executor
    refreshPending, \* async_request_refresh() called, refresh not yet started
    entries,       \* hass.data[DOMAIN]: the entry ids stored, in insertion order
    setupPc,       \* per config entry: position of its set-up
    services,      \* reset_error and set_temperature_boost are registered
    codecPc,       \* wire codec exercised on its own: position
    codecIn,       \* the float handed to the write path
    codecWords,    \* the register words the write path produced
    codecOut       \* what the read path decoded from those words

envVars   == <<device, deviceUp, faultAddr, faultMode>>
fetchVars == <<connected, fetchPc, fetchConn, fetchLocal, fetchResult, data>>
opVars    == <<lastOp, nWrites>>
hostVars  == <<writePc, writeJob, refreshPending>>
setupVars == <<entries, setupPc, services>>
codecVars == <<codecPc, codecIn, codecWords, codecOut>>
vars      == <<envVars, fetchVars, busLog, opVars, hostVars, setupVars, codecVars>>

(***************************************************************************)
(* Python values.  A float is kept as the three fields of its IEEE-754     *)
(* single-precision form: value = (-1)^s * 1.m * 2^(e-127).                *)
(***************************************************************************)
None == [kind |-> "none"]

IntVal(n) == [kind |-> "int", n |-> n]

BoolVal(b) == [kind |-> "bool", b |-> b]

StrVal(x) == [kind |-> "str", str |-> x]

FloatVal(s, e, m) == [kind |-> "float", s |-> s, e |-> e, m |-> m]

RECURSIVE FloorLog2(_)
FloorLog2(a) == IF a < 2 THEN 0 ELSE 1 + FloorLog2(a \div 2)

\* The float a Python number n (an integer-valued catalog bound, |n| < 2^24)
\* denotes.
IntToFloat(n) ==
    IF n = 0 THEN FloatVal(0, 0, 0)
    ELSE LET a == IF n < 0 THEN -n ELSE n
             k == FloorLog2(a)
         IN  FloatVal(IF n < 0 THEN 1 ELSE 0, 127 + k, (a - 2^k) * 2^(23 - k))

\* Order-preserving integer image of a finite float (+0.0 and -0.0 coincide).
FloatKey(f) ==
    IF f.s = 0 THEN f.e * 8388608 + f.m ELSE -(f.e * 8388608 + f.m)

\* Python's  value < n,  value > n,  value == n  for a number n.
Lt(value, n) ==
    IF value.kind = "float" THEN FloatKey(value) < FloatKey(IntToFloat(n))
    ELSE value.n < n

Gt(value, n) ==
    IF value.kind = "float" THEN FloatKey(value) > FloatKey(IntToFloat(n))
    ELSE value.n > n

Eq(value, n) ==
    CASE value.kind = "float" -> FloatKey(value) = FloatKey(IntToFloat(n))
      [] value.kind = "int"   -> value.n = n
      [] OTHER                -> FALSE

\* Faulty variant of And0xFF: the mask keeps all sixteen bits.
And0xFFFF(n) == n % 65536

\* value & 0xFF on a non-negative int.
And0xFF(n) == n % 256

(***************************************************************************)
(* const.py: the register catalog.                                         *)
(***************************************************************************)
NoOptions == <<>>

RegisterDefinition(address, data_type, access_type, min_value, max_value, state_class, options) ==
    [address |-> address, data_type |-> data_type, access_type |-> access_type,
     min_value |-> min_value, max_value |-> max_value,
     state_class |-> state_class, options |-> options]

\* min_value / max_value: <<>> is None, <<n>> is the bound n.
REGISTERS ==
    "outside_temp" :> RegisterDefinition(1000, "FLOAT", "RO", <<-50>>, <<50>>, "MEASUREMENT", NoOptions)
 @@ "outside_temp_averaged" :> RegisterDefinition(1002, "FLOAT", "RO", <<-50>>, <<50>>, "MEASUREMENT", NoOptions)
 @@ "internal_message" :> RegisterDefinition(1004, "WORD", "RO", <<>>, <<>>, "None", NoOptions)
 @@ "system_mode" :> RegisterDefinition(1005, "WORD", "RW", <<0>>, <<5>>, "None", (0 :> "Standby" @@ 1 :> "Automatic" @@ 2 :> "Away" @@ 4 :> "DHW Only" @@ 5 :> "Heating/Cooling Only"))
 @@ "smart_grid_status" :> RegisterDefinition(1006, "WORD", "RO", <<>>, <<>>, "None", NoOptions)
 @@ "buffer_temp" :> RegisterDefinition(1008, "FLOAT", "RO", <<0>>, <<100>>, "MEASUREMENT", NoOptions)
 @@ "cooling_buffer_temp" :> RegisterDefinition(1010, "FLOAT", "RO", <<0>>, <<100>>, "MEASUREMENT", NoOptions)
 @@ "dhw_temp_bottom" :> RegisterDefinition(1012, "FLOAT", "RO", <<0>>, <<100>>, "MEASUREMENT", NoOptions)
 @@ "dhw_temp_top" :> RegisterDefinition(1014, "FLOAT", "RO", <<0>>, <<100>>, "MEASUREMENT", NoOptions)
 @@ "dhw_outlet_temp" :> RegisterDefinition(1030, "FLOAT", "RO", <<0>>, <<100>>, "MEASUREMENT", NoOptions)
 @@ "dhw_target_temp" :> RegisterDefinition(1032, "UCHAR", "RW", <<35>>, <<95>>, "MEASUREMENT", NoOptions)
 @@ "dhw_on_temp" :> RegisterDefinition(1033, "UCHAR", "RW", <<35>>, <<95>>, "None", NoOptions)
 @@ "dhw_off_temp" :> RegisterDefinition(1034, "UCHAR", "RW", <<35>>, <<95>>, "None", NoOptions)
 @@ "heat_pump_flow_temp" :> RegisterDefinition(1050, "FLOAT", "RO", <<0>>, <<100>>, "MEASUREMENT", NoOptions)
 @@ "heat_pump_return_temp" :> RegisterDefinition(1052, "FLOAT", "RO", <<0>>, <<100>>, "MEASUREMENT", NoOptions)
 @@ "hgl_flow_temp" :> RegisterDefinition(1054, "FLOAT", "RO", <<0>>, <<100>>, "MEASUREMENT", NoOptions)
 @@ "source_inlet_temp" :> RegisterDefinition(1056, "FLOAT", "RO", <<-20>>, <<50>>, "MEASUREMENT", NoOptions)
 @@ "source_outlet_temp" :> RegisterDefinition(1058, "FLOAT", "RO", <<-20>>, <<50>>, "MEASUREMENT", NoOptions)
 @@ "air_intake_temp" :> RegisterDefinition(1060, "FLOAT", "RO", <<-50>>, <<50>>, "MEASUREMENT", NoOptions)
 @@ "heat_pump_mode" :> RegisterDefinition(1090, "WORD", "RO", <<>>, <<>>, "None", (0 :> "Off" @@ 1 :> "Heating" @@ 2 :> "Cooling" @@ 4 :> "DHW" @@ 8 :> "Defrosting"))
 @@ "heating_demand" :> RegisterDefinition(1091, "WORD", "RW", <<0>>, <<1>>, "None", NoOptions)
 @@ "cooling_demand" :> RegisterDefinition(1092, "WORD", "RW", <<0>>, <<1>>, "None", NoOptions)
 @@ "dhw_demand" :> RegisterDefinition(1093, "WORD", "RW", <<0>>, <<1>>, "None", NoOptions)
 @@ "evu_contact" :> RegisterDefinition(1098, "WORD", "RO", <<0>>, <<1>>, "None", NoOptions)
 @@ "error_state" :> RegisterDefinition(1099, "WORD", "RW", <<>>, <<>>, "None", NoOptions)
 @@ "compressor1_status" :> RegisterDefinition(1100, "WORD", "RO", <<0>>, <<1>>, "None", NoOptions)
 @@ "compressor2_status" :> RegisterDefinition(1101, "WORD", "RO", <<0>>, <<1>>, "None", NoOptions)
 @@ "loading_pump_status" :> RegisterDefinition(1104, "WORD", "RO", <<0>>, <<1>>, "None", NoOptions)
 @@ "source_pump_status" :> RegisterDefinition(1105, "WORD", "RO", <<0>>, <<1>>, "None", NoOptions)
 @@ "groundwater_pump_status" :> RegisterDefinition(1106, "WORD", "RO", <<0>>, <<1>>, "None", NoOptions)
 @@ "valve_circuit_heat_cool" :> RegisterDefinition(1110, "WORD", "RO", <<0>>, <<1>>, "None", NoOptions)
 @@ "valve_buffer_heat_cool" :> RegisterDefinition(1111, "WORD", "RO", <<0>>, <<1>>, "None", NoOptions)
 @@ "valve_heating_dhw" :> RegisterDefinition(1112, "WORD", "RO", <<0>>, <<1>>, "None", NoOptions)
 @@ "heating_circuit_a_temp" :> RegisterDefinition(1350, "FLOAT", "RO", <<0>>, <<100>>, "MEASUREMENT", NoOptions)
 @@ "heating_circuit_b_temp" :> RegisterDefinition(1352, "FLOAT", "RO", <<0>>, <<100>>, "MEASUREMENT", NoOptions)
 @@ "heating_circuit_a_room_temp" :> RegisterDefinition(1364, "FLOAT", "RO", <<0>>, <<40>>, "MEASUREMENT", NoOptions)
 @@ "heating_circuit_b_room_temp" :> RegisterDefinition(1366, "FLOAT", "RO", <<0>>, <<40>>, "MEASUREMENT", NoOptions)
 @@ "heating_circuit_a_target_temp" :> RegisterDefinition(1378, "FLOAT", "RO", <<0>>, <<40>>, "MEASUREMENT", NoOptions)
 @@ "heating_circuit_b_target_temp" :> RegisterDefinition(1380, "FLOAT", "RO", <<0>>, <<40>>, "MEASUREMENT", NoOptions)
 @@ "humidity" :> RegisterDefinition(1392, "FLOAT", "RO", <<0>>, <<100>>, "MEASUREMENT", NoOptions)
 @@ "heating_circuit_mode" :> RegisterDefinition(1393, "WORD", "RW", <<>>, <<>>, "None", (0 :> "Off" @@ 1 :> "Schedule" @@ 2 :> "Normal" @@ 3 :> "Eco" @@ 4 :> "Manual Heating" @@ 5 :> "Manual Cooling"))
 @@ "heating_circuit_active_mode" :> RegisterDefinition(1498, "WORD", "RO", <<>>, <<>>, "None", NoOptions)
 @@ "external_room_temp_a" :> RegisterDefinition(1650, "FLOAT", "RO", <<0>>, <<40>>, "MEASUREMENT", NoOptions)
 @@ "external_room_temp_b" :> RegisterDefinition(1652, "FLOAT", "RO", <<0>>, <<40>>, "MEASUREMENT", NoOptions)
 @@ "external_outside_temp" :> RegisterDefinition(1690, "FLOAT", "RO", <<-50>>, <<50>>, "MEASUREMENT", NoOptions)
 @@ "external_humidity" :> RegisterDefinition(1692, "FLOAT", "RO", <<0>>, <<100>>, "MEASUREMENT", NoOptions)
 @@ "target_temp_heating" :> RegisterDefinition(1694, "FLOAT", "RW", <<15>>, <<30>>, "MEASUREMENT", NoOptions)
 @@ "target_temp_cooling" :> RegisterDefinition(1695, "WORD", "RW", <<15>>, <<30>>, "MEASUREMENT", NoOptions)
 @@ "energy_heating" :> RegisterDefinition(1748, "FLOAT", "RO", <<0>>, <<1000000>>, "TOTAL_INCREASING", NoOptions)
 @@ "energy_total" :> RegisterDefinition(1750, "FLOAT", "RO", <<0>>, <<1000000>>, "TOTAL_INCREASING", NoOptions)
 @@ "energy_cooling" :> RegisterDefinition(1752, "FLOAT", "RO", <<0>>, <<1000000>>, "TOTAL_INCREASING", NoOptions)
 @@ "energy_dhw" :> RegisterDefinition(1754, "FLOAT", "RO", <<0>>, <<1000000>>, "TOTAL_INCREASING", NoOptions)
 @@ "defrosting_energy" :> RegisterDefinition(1756, "FLOAT", "RO", <<0>>, <<1000000>>, "TOTAL_INCREASING", NoOptions)
 @@ "passive_cooling_energy" :> RegisterDefinition(1758, "FLOAT", "RO", <<0>>, <<1000000>>, "TOTAL_INCREASING", NoOptions)
 @@ "solar_energy" :> RegisterDefinition(1760, "FLOAT", "RO", <<0>>, <<1000000>>, "TOTAL_INCREASING", NoOptions)
 @@ "electric_heating_energy" :> RegisterDefinition(1762, "FLOAT", "RO", <<0>>, <<1000000>>, "TOTAL_INCREASING", NoOptions)
 @@ "current_power" :> RegisterDefinition(1790, "FLOAT", "RO", <<0>>, <<20>>, "MEASUREMENT", NoOptions)
 @@ "solar_current_power" :> RegisterDefinition(1792, "FLOAT", "RO", <<0>>, <<20>>, "MEASUREMENT", NoOptions)
 @@ "solar_collector_temp" :> RegisterDefinition(1850, "FLOAT", "RO", <<-20>>, <<150>>, "MEASUREMENT", NoOptions)
 @@ "solar_collector_return_temp" :> RegisterDefinition(1852, "FLOAT", "RO", <<-20>>, <<150>>, "MEASUREMENT", NoOptions)
 @@ "solar_loading_temp" :> RegisterDefinition(1854, "FLOAT", "RO", <<-20>>, <<150>>, "MEASUREMENT", NoOptions)
 @@ "glt_heat_storage_temp" :> RegisterDefinition(1716, "FLOAT", "RO", <<0>>, <<100>>, "MEASUREMENT", NoOptions)
 @@ "glt_cold_storage_temp" :> RegisterDefinition(1718, "FLOAT", "RO", <<0>>, <<100>>, "MEASUREMENT", NoOptions)
 @@ "glt_dhw_bottom_temp" :> RegisterDefinition(1720, "FLOAT", "RO", <<0>>, <<100>>, "MEASUREMENT", NoOptions)
 @@ "glt_dhw_top_temp" :> RegisterDefinition(1722, "FLOAT", "RO", <<0>>, <<100>>, "MEASUREMENT", NoOptions)
 @@ "pv_surplus" :> RegisterDefinition(74, "FLOAT", "RO", <<0>>, <<20>>, "MEASUREMENT", NoOptions)
 @@ "e_heizstab_power" :> RegisterDefinition(76, "FLOAT", "RO", <<0>>, <<20>>, "MEASUREMENT", NoOptions)
 @@ "pv_production" :> RegisterDefinition(78, "FLOAT", "RO", <<0>>, <<20>>, "MEASUREMENT", NoOptions)
 @@ "heat_pump_power_consumption" :> RegisterDefinition(4122, "FLOAT", "RO", <<0>>, <<20>>, "MEASUREMENT", NoOptions)
 @@ "thermal_output" :> RegisterDefinition(4126, "FLOAT", "RO", <<0>>, <<25>>, "MEASUREMENT", NoOptions)
 @@ "energy_meter_total" :> RegisterDefinition(4128, "FLOAT", "RO", <<0>>, <<1000000>>, "TOTAL_INCREASING", NoOptions)

RegisterKeys ==
    << "outside_temp", "outside_temp_averaged", "internal_message", "system_mode",
       "smart_grid_status", "buffer_temp", "cooling_buffer_temp", "dhw_temp_bottom",
       "dhw_temp_top", "dhw_outlet_temp", "dhw_target_temp", "dhw_on_temp",
       "dhw_off_temp", "heat_pump_flow_temp", "heat_pump_return_temp", "hgl_flow_temp",
       "source_inlet_temp", "source_outlet_temp", "air_intake_temp", "heat_pump_mode",
       "heating_demand", "cooling_demand", "dhw_demand", "evu_contact",
       "error_state", "compressor1_status", "compressor2_status", "loading_pump_status",
       "source_pump_status", "groundwater_pump_status", "valve_circuit_heat_cool", "valve_buffer_heat_cool",
       "valve_heating_dhw", "heating_circuit_a_temp", "heating_circuit_b_temp", "heating_circuit_a_room_temp",
       "heating_circuit_b_room_temp", "heating_circuit_a_target_temp", "heating_circuit_b_target_temp", "humidity",
       "heating_circuit_mode", "heating_circuit_active_mode", "external_room_temp_a", "external_room_temp_b",
       "external_outside_temp", "external_humidity", "target_temp_heating", "target_temp_cooling",
       "energy_heating", "energy_total", "energy_cooling", "energy_dhw",
       "defrosting_energy", "passive_cooling_energy", "solar_energy", "electric_heating_energy",
       "current_power", "solar_current_power", "solar_collector_temp", "solar_collector_return_temp",
       "solar_loading_temp", "glt_heat_storage_temp", "glt_cold_storage_temp", "glt_dhw_bottom_temp",
       "glt_dhw_top_temp", "pv_surplus", "e_heizstab_power", "pv_production",
       "heat_pump_power_consumption", "thermal_output", "energy_meter_total" >>

Keys == DOMAIN REGISTERS

WordsOf(data_type) == IF data_type = "FLOAT" THEN 2 ELSE 1

\* Every address some catalog entry reads or writes.
Addrs ==
    UNION { { REGISTERS[k].address + i : i \in 0 .. WordsOf(REGISTERS[k].data_type) - 1 }
            : k \in Keys }

StartAddrs == { REGISTERS[k].address : k \in Keys }

(***************************************************************************)
(* Wire codec (coordinator.py).                                            *)
(***************************************************************************)
\* struct.unpack('!f', struct.pack('!I', combined)) with combined given as its
\* upper and lower 16 bits.
UnpackFloat(hi, lo) ==
    FloatVal(hi \div 32768, (hi \div 128) % 256, (hi % 128) * 65536 + lo)

\* struct.unpack('!I', struct.pack('!f', value)), as upper and lower 16 bits.
PackFloat(value) ==
    [hi |-> value.s * 32768 + value.e * 128 + value.m \div 65536,
     lo |-> value.m % 65536]

\* Faulty variant of IsNanOrInf: infinity is let through.
IsNanOnly(value) == value.e = 255 /\ value.m # 0

\* math.isnan(value) or math.isinf(value)
IsNanOrInf(value) == value.e = 255

\* _read_float_by_address, from the registers of a good response on:
\* combined = (registers[1] << 16) | registers[0].
RegistersToFloat(registers) ==
    IF Len(registers) < 2 THEN None
    ELSE LET value == UnpackFloat(registers[2], registers[1])
         IN  IF IsNanOrInf(value) THEN None ELSE value

\* _write_float_by_address: registers = [(combined >> 16) & 0xFFFF, combined & 0xFFFF].
FloatToRegisters(value) ==
    LET combined == PackFloat(value) IN << combined.hi, combined.lo >>

(***************************************************************************)
(* The bus client (pymodbus ModbusTcpClient) as the accessor sees it.      *)
(***************************************************************************)
\* client.read_input_registers(address=address, count=count): an exception,
\* an error response, or a response carrying the words read.
read_input_registers(address, count) ==
    IF ~deviceUp THEN [status |-> "exception", registers |-> <<>>]
    ELSE IF faultAddr = address /\ faultMode \in {"error", "exception"}
         THEN [status |-> faultMode, registers |-> <<>>]
    ELSE IF faultAddr = address /\ faultMode = "short"
         THEN [status |-> "ok",
               registers |-> [i \in 1 .. count - 1 |-> device[address + i - 1]]]
    ELSE [status |-> "ok",
          registers |-> [i \in 1 .. count |-> device[address + i - 1]]]

\* The outcomes client.write_register / write_registers can have for these
\* words: a word that does not fit a 16-bit register cannot be encoded.
WriteOutcomes(values) ==
    IF ~deviceUp \/ \E i \in 1 .. Len(values) : values[i] \notin 0 .. 65535
    THEN {"exception"}
    ELSE {"ok", "error", "exception"}

\* Device memory after a write request ending in `outcome`.
DeviceAfterWrite(address, values, outcome) ==
    IF outcome # "ok" THEN device
    ELSE [a \in DOMAIN device |->
            IF a \in address .. address + Len(values) - 1
            THEN values[a - address + 1] ELSE device[a]]

(***************************************************************************)
(* Register accessor: reads.                                               *)
(***************************************************************************)
_read_float_by_address(address) ==
    LET result == read_input_registers(address, 2)
    IN  IF result.status # "ok" THEN None
        ELSE RegistersToFloat(result.registers)

_read_uint16_by_address(address) ==
    LET result == read_input_registers(address, 1)
    IN  IF result.status # "ok" THEN None
        ELSE IF Len(result.registers) < 1 THEN None
        ELSE IntVal(result.registers[1])

read_float(register_key) ==
    IF register_key \notin Keys THEN None
    ELSE IF REGISTERS[register_key].data_type # "FLOAT" THEN None
    ELSE _read_float_by_address(REGISTERS[register_key].address)

read_uint16(register_key) ==
    IF register_key \notin Keys THEN None
    ELSE IF REGISTERS[register_key].data_type \notin {"WORD", "UCHAR"} THEN None
    ELSE _read_uint16_by_address(REGISTERS[register_key].address)

read_uchar(register_key) ==
    IF register_key \notin Keys THEN None
    ELSE IF REGISTERS[register_key].data_type # "UCHAR" THEN None
    ELSE LET value == _read_uint16_by_address(REGISTERS[register_key].address)
         IN  IF value # None THEN IntVal(And0xFF(value.n)) ELSE None

\* The bus request a typed read of a catalog entry issues.
ReadRequest(reg_def) ==
    [req |-> "read", address |-> reg_def.address,
     count |-> WordsOf(reg_def.data_type)]

(***************************************************************************)
(* Register accessor: writes.  A write either rejects the call or hands    *)
(* one request to the bus.                                                 *)
(***************************************************************************)
Reject == [send |-> FALSE, address |-> 0, values |-> <<>>]

Send(address, values) == [send |-> TRUE, address |-> address, values |-> values]

\* Faulty variant of IsWritable: the access type is not looked at.
IsWritableAlways(reg_def) == TRUE

IsWritable(reg_def) == reg_def.access_type = "RW"

\* value = register_def.min_value (max_value): the bound, as a number of the
\* kind the call was made with.
FromBound(value, n) == IF value.kind = "float" THEN IntToFloat(n) ELSE IntVal(n)

\* Faulty variant of ClampToBounds: the check against min_value is missing.
ClampToBoundsNoMin(value, reg_def) ==
    IF reg_def.max_value # <<>> /\ Gt(value, reg_def.max_value[1])
    THEN FromBound(value, reg_def.max_value[1]) ELSE value

\* Faulty variant of ClampToBounds: the check against max_value is missing.
ClampToBoundsNoMax(value, reg_def) ==
    IF reg_def.min_value # <<>> /\ Lt(value, reg_def.min_value[1])
    THEN FromBound(value, reg_def.min_value[1]) ELSE value

\* "Check value bounds if defined".
ClampToBounds(value, reg_def) ==
    LET v1 == IF reg_def.min_value # <<>> /\ Lt(value, reg_def.min_value[1])
              THEN FromBound(value, reg_def.min_value[1]) ELSE value
    IN  IF reg_def.max_value # <<>> /\ Gt(v1, reg_def.max_value[1])
        THEN FromBound(v1, reg_def.max_value[1]) ELSE v1

\* "Ensure value fits in 8 bits".
TruncateUchar(value) ==
    IF Gt(value, 255) THEN IntVal(And0xFF(value.n)) ELSE value

\* Faulty variant of UcharWriteValue: masked to 8 bits before the bounds check.
UcharMaskThenClamp(value, reg_def) ==
    ClampToBounds(IF Gt(value, 255) THEN IntVal(value.n % 256) ELSE value, reg_def)

\* write_uchar: the value handed to _write_uint16_by_address.
UcharWriteValue(value, reg_def) == TruncateUchar(ClampToBounds(value, reg_def))

write_uint16(register_key, value) ==
    IF register_key \notin Keys THEN Reject
    ELSE LET register_def == REGISTERS[register_key] IN
         IF register_def.data_type \notin {"WORD", "UCHAR"} THEN Reject
         ELSE IF ~IsWritable(register_def) THEN Reject
         ELSE LET clamped == ClampToBounds(value, register_def)
                  final == IF register_def.data_type = "UCHAR"
                           THEN TruncateUchar(clamped) ELSE clamped
              IN  Send(register_def.address, << final.n >>)

write_uchar(register_key, value) ==
    IF register_key \notin Keys THEN Reject
    ELSE LET register_def == REGISTERS[register_key] IN
         IF register_def.data_type # "UCHAR" THEN Reject
         ELSE IF ~IsWritable(register_def) THEN Reject
         ELSE Send(register_def.address, << UcharWriteValue(value, register_def).n >>)

write_float(register_key, value) ==
    IF register_key \notin Keys THEN Reject
    ELSE LET register_def == REGISTERS[register_key] IN
         IF register_def.data_type # "FLOAT" THEN Reject
         ELSE IF ~IsWritable(register_def) THEN Reject
         ELSE Send(register_def.address,
                   FloatToRegisters(ClampToBounds(value, register_def)))

(***************************************************************************)
(* Poll cycle: _fetch_data.                                                *)
(***************************************************************************)
\* None & 0xFF raises TypeError inside the sweep.
TypeError == [kind |-> "raise", exc |-> "TypeError"]

HasNonNegativeMin(reg_def) ==
    reg_def.min_value # <<>> /\ reg_def.min_value[1] >= 0

\* Faulty variant of FloatSentinel: -1.0 is a sentinel whatever the bounds.
FloatSentinelAnyBound(value, reg_def) == Eq(value, -1)

FloatSentinel(value, reg_def) == Eq(value, -1) /\ HasNonNegativeMin(reg_def)

\* Faulty variant of WordSentinel: 65535 is a sentinel whatever the bounds.
WordSentinelAnyBound(value, reg_def) == Eq(value, 65535) \/ Eq(value, -1)

WordSentinel(value, reg_def) ==
    (Eq(value, 65535) \/ Eq(value, -1)) /\ HasNonNegativeMin(reg_def)

UcharSentinel(value, reg_def) == Eq(value, 255) /\ HasNonNegativeMin(reg_def)

\* Faulty variant of SweepEntry: a FLOAT or WORD read that gave nothing raises.
SweepEntryRaisingOnFailure(key) ==
    LET reg_def == REGISTERS[key]
        raw     == IF reg_def.data_type = "FLOAT"
                   THEN _read_float_by_address(reg_def.address)
                   ELSE _read_uint16_by_address(reg_def.address)
    IN  IF raw = None THEN TypeError
        ELSE CASE reg_def.data_type = "FLOAT" ->
                    IF FloatSentinel(raw, reg_def) THEN None ELSE raw
               [] reg_def.data_type = "WORD" ->
                    IF WordSentinel(raw, reg_def) THEN None ELSE raw
               [] reg_def.data_type = "UCHAR" ->
                    LET value == IntVal(And0xFF(raw.n))
                    IN  IF UcharSentinel(value, reg_def) THEN None ELSE value

\* One pass of the loop "for key, reg_def in REGISTERS.items()": the value
\* stored under key, or the exception the pass raises.
SweepEntry(key) ==
    LET reg_def == REGISTERS[key] IN
    CASE reg_def.data_type = "FLOAT" ->
            LET value == _read_float_by_address(reg_def.address)
            IN  IF FloatSentinel(value, reg_def) THEN None ELSE value
      [] reg_def.data_type = "WORD" ->
            LET value == _read_uint16_by_address(reg_def.address)
            IN  IF WordSentinel(value, reg_def) THEN None ELSE value
      [] reg_def.data_type = "UCHAR" ->
            LET raw == _read_uint16_by_address(reg_def.address)
            IN  IF raw = None THEN TypeError
                ELSE LET value == IntVal(And0xFF(raw.n))
                     IN  IF UcharSentinel(value, reg_def) THEN None ELSE value

\* Index of the first pass that raises, 0 when none does.
RaisingPass ==
    LET raising == { i \in 1 .. Len(RegisterKeys) :
                        SweepEntry(RegisterKeys[i]).kind = "raise" }
    IN  IF raising = {} THEN 0
        ELSE CHOOSE i \in raising : \A j \in raising : i <= j

\* Faulty variant of SweepRequests: a read that gave nothing is tried again.
SweepRequestsRetrying ==
    LET last  == IF RaisingPass = 0 THEN Len(RegisterKeys) ELSE RaisingPass
        once  == [i \in 1 .. last |-> ReadRequest(REGISTERS[RegisterKeys[i]])]
        first == RegisterKeys[1]
    IN  IF SweepEntry(first) = None /\ REGISTERS[first].data_type = "FLOAT"
        THEN << ReadRequest(REGISTERS[first]) >> \o once
        ELSE once

\* The bus reads the sweep issues: one per pass, up to the pass that raises.
SweepRequests ==
    LET last == IF RaisingPass = 0 THEN Len(RegisterKeys) ELSE RaisingPass
    IN  [i \in 1 .. last |-> ReadRequest(REGISTERS[RegisterKeys[i]])]

\* The keys the "safety check for energy sensors" loop goes through.
EnergyKeys ==
    {"energy_heating", "energy_cooling", "energy_dhw", "energy_total",
     "energy_meter_total"}

NegativeEnergyToZero(d) ==
    [k \in DOMAIN d |->
        IF k \in EnergyKeys /\ d[k] # None /\ Lt(d[k], 0) THEN IntVal(0) ELSE d[k]]

\* reg_def.options.get(value, "Unknown")
OptionLabel(options, value) ==
    IF value.kind = "int" /\ value.n \in DOMAIN options
    THEN options[value.n] ELSE "Unknown"

\* Faulty variant of AddStringRepresentations: an unavailable value is looked
\* up too.
AddStringRepresentationsOfNone(d) ==
    LET labelled == { k \in Keys : /\ DOMAIN REGISTERS[k].options # {}
                                   /\ k \in DOMAIN d }
        strKeys  == { k \o "_str" : k \in labelled }
    IN  [x \in DOMAIN d \cup strKeys |->
            IF x \in strKeys
            THEN LET k == CHOOSE k \in labelled : k \o "_str" = x
                 IN  StrVal(OptionLabel(REGISTERS[k].options, d[k]))
            ELSE d[x]]

AddStringRepresentations(d) ==
    LET labelled == { k \in Keys : /\ DOMAIN REGISTERS[k].options # {}
                                   /\ k \in DOMAIN d
                                   /\ d[k] # None }
        strKeys  == { k \o "_str" : k \in labelled }
    IN  [x \in DOMAIN d \cup strKeys |->
            IF x \in strKeys
            THEN LET k == CHOOSE k \in labelled : k \o "_str" = x
                 IN  StrVal(OptionLabel(REGISTERS[k].options, d[k]))
            ELSE d[x]]

\* data.get(key)
Get(d, key) == IF key \in DOMAIN d THEN d[key] ELSE None

\* Faulty variant of HvacState: the DHW code 4 counts as heating.
HvacStateDhwHeating(heat_pump_mode) ==
    IF Eq(heat_pump_mode, 0) THEN "off"
    ELSE IF Eq(heat_pump_mode, 1) \/ Eq(heat_pump_mode, 4) THEN "heating"
    ELSE IF Eq(heat_pump_mode, 2) THEN "cooling"
    ELSE "idle"

HvacState(heat_pump_mode) ==
    IF Eq(heat_pump_mode, 0) THEN "off"
    ELSE IF Eq(heat_pump_mode, 1) THEN "heating"
    ELSE IF Eq(heat_pump_mode, 2) THEN "cooling"
    ELSE "idle"

\* Faulty variant of HvacMode: system mode 5 is not looked at.
HvacModeWithoutMode5(system_mode, heat_pump_mode) ==
    IF Eq(system_mode, 0) THEN "off"
    ELSE IF Eq(system_mode, 1)
         THEN IF Eq(heat_pump_mode, 1) THEN "heat"
              ELSE IF Eq(heat_pump_mode, 2) THEN "cool"
              ELSE "auto"
    ELSE "off"

HvacMode(system_mode, heat_pump_mode) ==
    IF Eq(system_mode, 0) THEN "off"
    ELSE IF Eq(system_mode, 1) \/ Eq(system_mode, 5)
         THEN IF Eq(heat_pump_mode, 1) THEN "heat"
              ELSE IF Eq(heat_pump_mode, 2) THEN "cool"
              ELSE "auto"
    ELSE "off"

AddHvac(d) ==
    LET heat_pump_mode == Get(d, "heat_pump_mode")
        system_mode    == Get(d, "system_mode")
    IN  [x \in DOMAIN d \cup {"hvac_state", "hvac_mode"} |->
            IF x = "hvac_state" THEN StrVal(HvacState(heat_pump_mode))
            ELSE IF x = "hvac_mode" THEN StrVal(HvacMode(system_mode, heat_pump_mode))
            ELSE d[x]]

\* Faulty variant of SweepData: a register whose read gave nothing is left out.
SweepDataSkippingUnavailable ==
    AddHvac(AddStringRepresentations(NegativeEnergyToZero(
        [k \in { x \in Keys : SweepEntry(x) # None } |-> SweepEntry(k)])))

\* The dictionary the try body returns when no pass raises.
SweepData ==
    AddHvac(AddStringRepresentations(NegativeEnergyToZero(
        [k \in Keys |-> SweepEntry(k)])))

EmptySnapshot == [k \in {} |-> None]

\* Faulty variant of ExceptHandler: the exception is raised again.
ExceptHandlerReraise == [raised |-> TRUE, data |-> EmptySnapshot]

\* except Exception as e: log and return {}.
ExceptHandler == [raised |-> FALSE, data |-> EmptySnapshot]

\* How client.connect() can end: it reports success, reports failure, or raises.
ConnectOutcomes == IF deviceUp THEN {"ok"} ELSE {"refused", "raised"}

\* try: self.client.connect(); data = {}.  The value connect() returns is not
\* looked at.  A cycle that starts serves whatever refresh request was pending.
FetchConnect ==
    /\ fetchPc = "idle"
    /\ \E how \in ConnectOutcomes :
          /\ fetchConn' = how
          /\ connected' = (how = "ok")
          /\ IF how = "raised"
             THEN fetchPc' = "finally" /\ fetchLocal' = ExceptHandler
             ELSE /\ fetchPc' = "sweep"
                  /\ fetchLocal' = [raised |-> FALSE, data |-> EmptySnapshot]
    /\ busLog' = <<>>
    /\ refreshPending' = FALSE
    /\ UNCHANGED <<envVars, fetchResult, data, opVars, writePc, writeJob, setupVars, codecVars>>

\* The rest of the try body: the sweep and the derived keys.
FetchSweep ==
    /\ fetchPc = "sweep"
    /\ fetchLocal' = IF RaisingPass # 0 THEN ExceptHandler
                     ELSE [raised |-> FALSE, data |-> SweepData]
    /\ busLog' = SweepRequests
    /\ fetchPc' = "finally"
    /\ UNCHANGED <<envVars, connected, fetchConn, fetchResult, data, opVars, hostVars,
                   setupVars, codecVars>>

\* The sweep taken one pass at a time: the worker thread fills its local
\* dictionary key by key, in catalog order.
NextPass == Cardinality(DOMAIN fetchLocal.data) + 1

\* Faulty variant of FetchPass: each pass stores into the published snapshot.
FetchPassPublishing ==
    /\ fetchPc = "sweep"
    /\ NextPass <= Len(RegisterKeys)
    /\ LET key   == RegisterKeys[NextPass]
           value == SweepEntry(key)
       IN  /\ IF value.kind = "raise"
              THEN fetchLocal' = ExceptHandler /\ fetchPc' = "finally"
              ELSE /\ fetchLocal' = [raised |-> FALSE,
                                     data |-> (key :> value) @@ fetchLocal.data]
                   /\ fetchPc' = "sweep"
           /\ data' = (key :> value) @@ data
           /\ busLog' = Append(busLog, ReadRequest(REGISTERS[key]))
    /\ UNCHANGED <<envVars, connected, fetchConn, fetchResult, opVars, hostVars,
                   setupVars, codecVars>>

\* One pass of the loop over REGISTERS.items(): data[key] = value, or the
\* exception the pass raises reaches the except handler.
FetchPass ==
    /\ fetchPc = "sweep"
    /\ NextPass <= Len(RegisterKeys)
    /\ LET key   == RegisterKeys[NextPass]
           value == SweepEntry(key)
       IN  /\ IF value.kind = "raise"
              THEN fetchLocal' = ExceptHandler /\ fetchPc' = "finally"
              ELSE /\ fetchLocal' = [raised |-> FALSE,
                                     data |-> (key :> value) @@ fetchLocal.data]
                   /\ fetchPc' = "sweep"
           /\ busLog' = Append(busLog, ReadRequest(REGISTERS[key]))
    /\ UNCHANGED <<envVars, connected, fetchConn, fetchResult, data, opVars, hostVars,
                   setupVars, codecVars>>

\* After the last pass: the energy check, the string representations and the
\* hvac keys, then return data.
FetchDerive ==
    /\ fetchPc = "sweep"
    /\ NextPass = Len(RegisterKeys) + 1
    /\ fetchLocal' = [raised |-> FALSE,
                      data |-> AddHvac(AddStringRepresentations(
                                   NegativeEnergyToZero(fetchLocal.data)))]
    /\ fetchPc' = "finally"
    /\ UNCHANGED <<envVars, connected, fetchConn, fetchResult, data, busLog, opVars,
                   hostVars, setupVars, codecVars>>

\* coordinator.last_update_success as the host keeps it: false after an update
\* method that raised, true after one that returned.
last_update_success == fetchResult # "raised"

\* Faulty variant of FetchReturn: the finally clause does not close.
FetchReturnWithoutClose ==
    /\ fetchPc = "finally"
    /\ fetchResult' = IF fetchLocal.raised THEN "raised" ELSE "returned"
    /\ data' = IF fetchLocal.raised THEN data ELSE fetchLocal.data
    /\ fetchPc' = "idle"
    /\ UNCHANGED <<envVars, connected, fetchConn, fetchLocal, busLog, opVars, hostVars,
                   setupVars, codecVars>>

\* finally: self.client.close(); the value returned becomes coordinator.data.
FetchReturn ==
    /\ fetchPc = "finally"
    /\ connected' = FALSE
    /\ fetchResult' = IF fetchLocal.raised THEN "raised" ELSE "returned"
    /\ data' = IF fetchLocal.raised THEN data ELSE fetchLocal.data
    /\ fetchPc' = "idle"
    /\ UNCHANGED <<envVars, fetchConn, fetchLocal, busLog, opVars, hostVars, setupVars, codecVars>>

(***************************************************************************)
(* Accessor calls, each run to completion in an executor thread.           *)
(***************************************************************************)
MaxWrites == 1

UcharKeys == { k \in Keys : REGISTERS[k].data_type = "UCHAR" }

\* Keys written: every writable register, one read-only register of each
\* shape (FLOAT, WORD without bounds, WORD with bounds) and a key the catalog
\* does not have.
KeyInputs ==
    { k \in Keys : REGISTERS[k].access_type = "RW" } \cup
    {"outside_temp", "heat_pump_mode", "evu_contact", "no_such_register"}

IntInputs == {-5, 0, 1, 10, 50, 300, 999, 70000}

\* 10.0, 20.5, 30.0, 999.0 and -1.0
FloatInputs ==
    { FloatVal(0, 130, 2097152), FloatVal(0, 131, 2359296), FloatVal(0, 131, 7340032),
      FloatVal(0, 136, 7979008), FloatVal(1, 127, 0) }

\* Faulty variant of ApplyWrite: a write the device accepted is also stored in
\* the published snapshot.
ApplyWriteUpdatingSnapshot(op, key, value, plan) ==
    /\ nWrites' = nWrites + 1
    /\ IF ~plan.send
       THEN /\ lastOp' = [op |-> op, key |-> key, value |-> value, ret |-> BoolVal(FALSE)]
            /\ busLog' = <<>>
            /\ UNCHANGED <<device, data>>
       ELSE \E outcome \in WriteOutcomes(plan.values) :
            /\ lastOp' = [op |-> op, key |-> key, value |-> value,
                          ret |-> BoolVal(outcome = "ok")]
            /\ busLog' = << [req |-> "write", address |-> plan.address,
                             values |-> plan.values, status |-> outcome] >>
            /\ device' = DeviceAfterWrite(plan.address, plan.values, outcome)
            /\ data' = IF outcome = "ok" THEN (key :> value) @@ data ELSE data
    /\ UNCHANGED <<deviceUp, faultAddr, faultMode, connected, fetchPc, fetchConn,
                   fetchLocal, fetchResult, hostVars, setupVars, codecVars>>

\* A write call `op(key, value)` whose checks and clamping gave `plan`.
ApplyWrite(op, key, value, plan) ==
    /\ nWrites' = nWrites + 1
    /\ IF ~plan.send
       THEN /\ lastOp' = [op |-> op, key |-> key, value |-> value, ret |-> BoolVal(FALSE)]
            /\ busLog' = <<>>
            /\ UNCHANGED device
       ELSE \E outcome \in WriteOutcomes(plan.values) :
            /\ lastOp' = [op |-> op, key |-> key, value |-> value,
                          ret |-> BoolVal(outcome = "ok")]
            /\ busLog' = << [req |-> "write", address |-> plan.address,
                             values |-> plan.values, status |-> outcome] >>
            /\ device' = DeviceAfterWrite(plan.address, plan.values, outcome)
    /\ UNCHANGED <<deviceUp, faultAddr, faultMode, fetchVars, hostVars, setupVars, codecVars>>

WriteUint16 ==
    \E key \in KeyInputs, v \in IntInputs :
        /\ nWrites < MaxWrites
        /\ ApplyWrite("write_uint16", key, IntVal(v), write_uint16(key, IntVal(v)))

WriteUchar ==
    \E key \in KeyInputs, v \in IntInputs :
        /\ nWrites < MaxWrites
        /\ ApplyWrite("write_uchar", key, IntVal(v), write_uchar(key, IntVal(v)))

WriteFloat ==
    \E key \in KeyInputs, value \in FloatInputs :
        /\ nWrites < MaxWrites
        /\ ApplyWrite("write_float", key, value, write_float(key, value))

\* Keys read on their own: the UCHAR registers, a WORD register, a FLOAT
\* register and a key the catalog does not have.
ReadKeyInputs == UcharKeys \cup {"system_mode", "outside_temp", "no_such_register"}

ReadUchar ==
    \E key \in ReadKeyInputs :
        /\ lastOp' = [op |-> "read_uchar", key |-> key, value |-> None,
                      ret |-> read_uchar(key)]
        /\ busLog' = IF key \in Keys /\ REGISTERS[key].data_type = "UCHAR"
                     THEN << ReadRequest(REGISTERS[key]) >> ELSE <<>>
        /\ UNCHANGED <<envVars, fetchVars, nWrites, hostVars, setupVars, codecVars>>

(***************************************************************************)
(* Entities and services (number.py, switch.py, services.py).  A handler    *)
(* runs on the event loop, hands the accessor call to an executor thread,   *)
(* and resumes when the call has returned.  The executor thread is not the  *)
(* one a poll cycle runs in, and nothing in the coordinator serialises the  *)
(* two.                                                                     *)
(***************************************************************************)
NoJob == [src |-> "none", op |-> "none", key |-> "", value |-> None,
          plan |-> Reject, ret |-> None]

\* get_number_registers()
NumberKeys ==
    { key \in Keys :
        /\ REGISTERS[key].access_type = "RW"
        /\ REGISTERS[key].data_type \in {"FLOAT", "WORD", "UCHAR"}
        /\ REGISTERS[key].min_value # <<>>
        /\ REGISTERS[key].max_value # <<>>
        /\ ~(REGISTERS[key].min_value = <<0>> /\ REGISTERS[key].max_value = <<1>>) }

\* get_switch_registers()
SwitchKeys ==
    { key \in Keys :
        /\ REGISTERS[key].access_type = "RW"
        /\ REGISTERS[key].min_value = <<0>>
        /\ REGISTERS[key].max_value = <<1>> }

\* Number entities set: one per data type.  Values they are set to.
NumberKeyInputs == NumberKeys \cap {"target_temp_heating", "system_mode", "dhw_target_temp"}

NumberInputs == {40, 300}

\* Switch entities turned on and off.
SwitchKeyInputs == SwitchKeys \cap {"heating_demand"}

\* The accessor call as far as its bus request.
WritePlan(op, key, value) ==
    CASE op = "write_uint16" -> write_uint16(key, value)
      [] op = "write_uchar"  -> write_uchar(key, value)
      [] op = "write_float"  -> write_float(key, value)

\* await hass.async_add_executor_job(coordinator.<op>, key, value): the
\* executor thread runs the accessor, which returns False at once or issues
\* its bus request.
SubmitWrite(src, op, key, value) ==
    LET plan == WritePlan(op, key, value) IN
    /\ writePc = "idle"
    /\ nWrites' = nWrites + 1
    /\ writeJob' = [src |-> src, op |-> op, key |-> key, value |-> value,
                    plan |-> plan,
                    ret |-> IF plan.send THEN None ELSE BoolVal(FALSE)]
    /\ writePc' = IF plan.send THEN "outstanding" ELSE "returned"
    /\ busLog' = IF plan.send
                 THEN << [req |-> "write", address |-> plan.address,
                          values |-> plan.values, status |-> "outstanding"] >>
                 ELSE <<>>
    /\ UNCHANGED <<envVars, fetchVars, lastOp, refreshPending, setupVars, codecVars>>

\* IdmFloatNumber / IdmIntNumber / IdmUCharNumber.async_set_native_value
NumberSetNativeValue ==
    \E key \in NumberKeyInputs, n \in NumberInputs :
        /\ nWrites < MaxWrites
        /\ CASE REGISTERS[key].data_type = "FLOAT" ->
                    SubmitWrite("number", "write_float", key, IntToFloat(n))
              [] REGISTERS[key].data_type = "WORD" ->
                    SubmitWrite("number", "write_uint16", key, IntVal(n))
              [] REGISTERS[key].data_type = "UCHAR" ->
                    SubmitWrite("number", "write_uchar", key, IntVal(And0xFF(n)))

\* IdmGenericSwitch.async_turn_on
SwitchTurnOn ==
    \E key \in SwitchKeyInputs :
        /\ nWrites < MaxWrites
        /\ SubmitWrite("switch", "write_uint16", key, IntVal(1))

\* IdmGenericSwitch.async_turn_off
SwitchTurnOff ==
    \E key \in SwitchKeyInputs :
        /\ nWrites < MaxWrites
        /\ SubmitWrite("switch", "write_uint16", key, IntVal(0))

\* A run of reset_error that found no entry: it logs and returns.
ServiceReturnsEarly ==
    /\ writePc = "idle"
    /\ writeJob' = [NoJob EXCEPT !.src = "service"]
    /\ busLog' = <<>>
    /\ UNCHANGED <<envVars, fetchVars, opVars, writePc, refreshPending, setupVars,
                   codecVars>>

\* Faulty variant of ResetError: hass.data[DOMAIN] is not looked at.
ResetErrorWithoutEntryCheck ==
    /\ nWrites < MaxWrites
    /\ SubmitWrite("service", "write_uint16", "error_state", IntVal(0))

\* The reset_error service: with no entry in hass.data[DOMAIN] it returns,
\* otherwise it writes 0 to error_state through the coordinator of the first
\* entry, the coordinator this module models.
ResetError ==
    /\ nWrites < MaxWrites
    /\ IF entries = <<>>
       THEN ServiceReturnsEarly
       ELSE SubmitWrite("service", "write_uint16", "error_state", IntVal(0))

\* The bus answers the outstanding write and the accessor returns.
WriteRespond ==
    /\ writePc = "outstanding"
    /\ \E outcome \in WriteOutcomes(writeJob.plan.values) :
          /\ device' = DeviceAfterWrite(writeJob.plan.address, writeJob.plan.values,
                                        outcome)
          /\ writeJob' = [writeJob EXCEPT !.ret = BoolVal(outcome = "ok")]
          /\ lastOp' = [op |-> writeJob.op, key |-> writeJob.key,
                        value |-> writeJob.value, ret |-> BoolVal(outcome = "ok")]
    /\ writePc' = "returned"
    /\ UNCHANGED <<deviceUp, faultAddr, faultMode, fetchVars, busLog, nWrites,
                   refreshPending, setupVars, codecVars>>

\* Faulty variant of RequestsRefresh: only the service asks for a refresh.
RequestsRefreshServiceOnly(job) == job.src = "service"

\* Whether the handler goes on to await coordinator.async_request_refresh():
\* an entity does "if success", the reset_error service does in any case.
RequestsRefresh(job) == job.src = "service" \/ job.ret = BoolVal(TRUE)

\* The handler resumes on the event loop with the accessor's return value.
WriteReturn ==
    /\ writePc = "returned"
    /\ refreshPending' = (refreshPending \/ RequestsRefresh(writeJob))
    /\ writePc' = "idle"
    /\ UNCHANGED <<envVars, fetchVars, busLog, opVars, writeJob, setupVars, codecVars>>

\* A requested refresh starts a poll cycle as soon as no cycle is running.
RefreshStart ==
    /\ refreshPending
    /\ FetchConnect

\* The update interval elapses and a poll cycle starts.
TimerTick ==
    /\ ~refreshPending
    /\ FetchConnect

(***************************************************************************)
(* Config entries (__init__.py) and the operator services (services.py).    *)
(* async_setup_entry awaits between storing the entry and looking at the   *)
(* number of entries, so set-ups of different entries can overlap; the      *)
(* last three statements of async_unload_entry run without a break.         *)
(***************************************************************************)
EntryIds == {"entry1", "entry2"}

\* The entries whose set-up has completed and that have not been unloaded.
LoadedEntries == { e \in EntryIds : setupPc[e] = "loaded" }

\* hass.data[DOMAIN].pop(entry.entry_id)
Pop(seq, e) == SelectSeq(seq, LAMBDA x : x # e)

\* async_setup_entry up to "await async_forward_entry_setups": the coordinator
\* is created and refreshed once, and the entry is stored in hass.data[DOMAIN].
SetupEntryStore ==
    \E e \in EntryIds :
        /\ setupPc[e] = "none"
        /\ entries' = Append(entries, e)
        /\ setupPc' = [setupPc EXCEPT ![e] = "forwarding"]
        /\ UNCHANGED <<envVars, fetchVars, busLog, opVars, hostVars, services, codecVars>>

\* The rest of async_setup_entry: "if len(hass.data[DOMAIN]) == 1" the two
\* services are registered; return True.
SetupEntryFinish ==
    \E e \in EntryIds :
        /\ setupPc[e] = "forwarding"
        /\ services' = (services \/ Len(entries) = 1)
        /\ setupPc' = [setupPc EXCEPT ![e] = "loaded"]
        /\ UNCHANGED <<envVars, fetchVars, busLog, opVars, hostVars, entries, codecVars>>

\* async_unload_entry of a loaded entry whose platforms unload (when they do
\* not, nothing changes): the client is closed, the entry is popped, and
\* "if not hass.data[DOMAIN]" the two services are removed.
UnloadEntry ==
    \E e \in EntryIds :
        /\ setupPc[e] = "loaded"
        /\ connected' = FALSE
        /\ entries' = Pop(entries, e)
        /\ services' = (services /\ Pop(entries, e) # <<>>)
        /\ setupPc' = [setupPc EXCEPT ![e] = "none"]
        /\ UNCHANGED <<envVars, fetchPc, fetchConn, fetchLocal, fetchResult, data, busLog,
                       opVars, hostVars, codecVars>>

\* One entry set up, its services registered.
OneEntryLoaded ==
    /\ entries = <<"entry1">>
    /\ setupPc = [e \in EntryIds |-> IF e = "entry1" THEN "loaded" ELSE "none"]
    /\ services = TRUE

\* The host has started and no entry is set up yet.
NoEntryLoaded ==
    /\ entries = <<>>
    /\ setupPc = [e \in EntryIds |-> "none"]
    /\ services = FALSE

(***************************************************************************)
(* The wire codec on its own: a float through the write path's encoding,   *)
(* the words through the read path's decoding.                             *)
(***************************************************************************)
EncodeFloat ==
    /\ codecPc = "input"
    /\ codecWords' = FloatToRegisters(codecIn)
    /\ codecPc' = "encoded"
    /\ UNCHANGED <<envVars, fetchVars, busLog, opVars, hostVars, setupVars, codecIn, codecOut>>

DecodeFloat ==
    /\ codecPc = "encoded"
    /\ codecOut' = RegistersToFloat(codecWords)
    /\ codecPc' = "decoded"
    /\ UNCHANGED <<envVars, fetchVars, busLog, opVars, hostVars, setupVars, codecIn, codecWords>>

(***************************************************************************)
(* Initial states.                                                         *)
(***************************************************************************)
\* A device at rest: every FLOAT register holds 20.0 (low word first), every
\* WORD register 1, every UCHAR register 50.
NominalWord(a) ==
    IF a \in StartAddrs
    THEN LET k == CHOOSE k \in Keys : REGISTERS[k].address = a
         IN  CASE REGISTERS[k].data_type = "FLOAT" -> 0
               [] REGISTERS[k].data_type = "WORD"  -> 1
               [] REGISTERS[k].data_type = "UCHAR" -> 50
    ELSE 16800

NominalDevice == [a \in Addrs |-> NominalWord(a)]

\* The device with the words of one catalog entry replaced.
SetRegister(dev, key, words) ==
    [a \in DOMAIN dev |->
        IF a \in REGISTERS[key].address .. REGISTERS[key].address + Len(words) - 1
        THEN words[a - REGISTERS[key].address + 1] ELSE dev[a]]

\* Register contents tried per data type, as the words on the wire.
\* FLOAT (low word first): -1.0, -50.0, -0.05, 0.0, 999.0, NaN, +Infinity,
\* -Infinity, a NaN whose payload is in the low word.
RawWords(data_type) ==
    IF data_type = "FLOAT"
    THEN { <<0, 49024>>, <<0, 49736>>, <<52429, 48460>>, <<0, 0>>,
           <<49152, 17529>>, <<0, 32704>>, <<0, 32640>>,
           <<0, 65408>>, <<1, 32640>> }
    ELSE { <<0>>, <<2>>, <<5>>, <<255>>, <<300>>, <<511>>, <<65535>> }

UcharRawWords == {0, 44, 95, 255, 256, 300, 511, 65280, 65535}

FaultModes == {"error", "exception", "short"}

ClientInit ==
    /\ connected = FALSE
    /\ fetchPc = "idle"
    /\ fetchConn = "none"
    /\ fetchLocal = [raised |-> FALSE, data |-> EmptySnapshot]
    /\ fetchResult = "none"
    /\ data = EmptySnapshot
    /\ busLog = <<>>
    /\ lastOp = [op |-> "none", key |-> "", value |-> None, ret |-> None]
    /\ nWrites = 0
    /\ writePc = "idle"
    /\ writeJob = NoJob
    /\ refreshPending = FALSE

CodecOff ==
    /\ codecPc = "off"
    /\ codecIn = None
    /\ codecWords = <<>>
    /\ codecOut = None

NoFault == faultAddr = -1 /\ faultMode = "none"

\* The device at rest, or at rest except for one register of unusual content.
Scenarios ==
    {NominalDevice} \cup
    UNION { { SetRegister(NominalDevice, k, w) : w \in RawWords(REGISTERS[k].data_type) }
            : k \in Keys }

\* Poll cycles against a device that is at rest except for one register,
\* whose content is unusual or whose read fails.
InitPoll ==
    /\ ClientInit
    /\ OneEntryLoaded
    /\ CodecOff
    /\ deviceUp \in BOOLEAN
    /\ \/ NoFault /\ device \in Scenarios
       \/ /\ device = NominalDevice
          /\ faultAddr \in StartAddrs
          /\ faultMode \in FaultModes

NextPoll == FetchConnect \/ FetchSweep \/ FetchReturn

SpecPoll == InitPoll /\ [][NextPoll]_vars

\* read_uchar calls and poll cycles against a device whose UCHAR registers
\* hold any kind of 16-bit word, or fail to answer.
InitUchar ==
    /\ ClientInit
    /\ OneEntryLoaded
    /\ CodecOff
    /\ deviceUp \in BOOLEAN
    /\ \/ /\ NoFault
          /\ device \in { SetRegister(NominalDevice, k, <<w>>) :
                             k \in UcharKeys, w \in UcharRawWords }
       \/ /\ device = NominalDevice
          /\ faultAddr \in { REGISTERS[k].address : k \in UcharKeys }
          /\ faultMode \in FaultModes

NextUchar == FetchConnect \/ FetchSweep \/ FetchReturn \/ ReadUchar

SpecUchar == InitUchar /\ [][NextUchar]_vars

\* Write calls against a device at rest.
InitWrite ==
    /\ ClientInit
    /\ OneEntryLoaded
    /\ CodecOff
    /\ deviceUp \in BOOLEAN
    /\ NoFault
    /\ device = NominalDevice

NextWrite == WriteUint16 \/ WriteUchar \/ WriteFloat

SpecWrite == InitWrite /\ [][NextWrite]_vars

\* Poll cycles against a device whose system_mode and heat_pump_mode registers
\* hold every combination of documented and undocumented codes, or whose read
\* of one of the two fails.
ModeWords == {0, 1, 2, 3, 4, 5, 8, 65535}

InitHvac ==
    /\ ClientInit
    /\ OneEntryLoaded
    /\ CodecOff
    /\ deviceUp \in BOOLEAN
    /\ \E sm \in ModeWords, hp \in ModeWords :
          device = SetRegister(SetRegister(NominalDevice, "system_mode", <<sm>>),
                               "heat_pump_mode", <<hp>>)
    /\ \/ NoFault
       \/ /\ faultAddr \in {REGISTERS["system_mode"].address,
                            REGISTERS["heat_pump_mode"].address}
          /\ faultMode \in FaultModes

NextHvac == FetchConnect \/ FetchSweep \/ FetchReturn

SpecHvac == InitHvac /\ [][NextHvac]_vars

\* Entities and services writing while poll cycles come and go.
InitHost ==
    /\ ClientInit
    /\ OneEntryLoaded
    /\ CodecOff
    /\ deviceUp \in BOOLEAN
    /\ NoFault
    /\ device = NominalDevice

NextHost ==
    \/ NumberSetNativeValue \/ SwitchTurnOn \/ SwitchTurnOff \/ ResetError
    \/ WriteRespond \/ WriteReturn
    \/ RefreshStart \/ TimerTick \/ FetchSweep \/ FetchReturn

SpecHost == InitHost /\ [][NextHost]_vars

\* Executor threads run, bus calls return (the client has a timeout), the
\* event loop resumes its handlers and starts a requested refresh; nothing is
\* assumed about the timer or about further writes.
\* The step by which the worker thread leaves the try body: FetchSweep is the
\* only action that takes it, and it can always be taken from "sweep".
SweepEnds == fetchPc = "sweep" /\ fetchPc' = "finally"

SpecHostLive ==
    /\ SpecHost
    /\ WF_vars(WriteRespond) /\ WF_vars(WriteReturn)
    /\ WF_vars(RefreshStart) /\ WF_fetchPc(SweepEnds) /\ WF_vars(FetchReturn)

\* Poll cycles whose worker thread keeps running once started: every read
\* returns (the client has a timeout).  Nothing is assumed about when a cycle
\* starts.
SpecPollLive == SpecPoll /\ WF_fetchPc(SweepEnds) /\ WF_vars(FetchReturn)

\* Between two poll cycles the heat pump changes what it is doing.
DeviceChanges ==
    /\ fetchPc = "idle"
    /\ \E w \in {1, 2} :
          /\ device[REGISTERS["heat_pump_mode"].address] # w
          /\ device' = SetRegister(device, "heat_pump_mode", <<w>>)
    /\ UNCHANGED <<deviceUp, faultAddr, faultMode, fetchVars, busLog, opVars, hostVars,
                   setupVars, codecVars>>

\* Poll cycles taken pass by pass, against a device that changes between
\* cycles and on which the read of one register may fail.
InitSnapshot ==
    /\ ClientInit
    /\ OneEntryLoaded
    /\ CodecOff
    /\ deviceUp \in BOOLEAN
    /\ device = NominalDevice
    /\ \/ NoFault
       \/ /\ faultAddr \in {REGISTERS["outside_temp"].address,
                            REGISTERS["dhw_off_temp"].address,
                            REGISTERS["heat_pump_mode"].address}
          /\ faultMode \in FaultModes

NextSnapshot == FetchConnect \/ FetchPass \/ FetchDerive \/ FetchReturn \/ DeviceChanges

SpecSnapshot == InitSnapshot /\ [][NextSnapshot]_vars

\* Entries set up and unloaded in any order and overlap, and reset_error
\* called at any time: a call dispatched while the service was registered may
\* run after the last entry has been unloaded.
InitSetup ==
    /\ ClientInit
    /\ NoEntryLoaded
    /\ CodecOff
    /\ deviceUp \in BOOLEAN
    /\ NoFault
    /\ device = NominalDevice

NextSetup ==
    \/ SetupEntryStore \/ SetupEntryFinish \/ UnloadEntry
    \/ ResetError \/ WriteRespond \/ WriteReturn

SpecSetup == InitSetup /\ [][NextSetup]_vars

\* Poll cycles and writes from entities and services, against a device on
\* which the read of one register may fail.
InitBus ==
    /\ ClientInit
    /\ OneEntryLoaded
    /\ CodecOff
    /\ deviceUp \in BOOLEAN
    /\ device = NominalDevice
    /\ \/ NoFault
       \/ faultAddr = REGISTERS["outside_temp"].address /\ faultMode = "error"
       \/ faultAddr = REGISTERS["system_mode"].address /\ faultMode = "short"
       \/ faultAddr = REGISTERS["dhw_on_temp"].address /\ faultMode = "exception"

NextBus ==
    \/ FetchConnect \/ FetchSweep \/ FetchReturn
    \/ NumberSetNativeValue \/ SwitchTurnOn \/ SwitchTurnOff \/ ResetError
    \/ WriteRespond \/ WriteReturn

SpecBus == InitBus /\ [][NextBus]_vars

\* Write calls of every fate: sent as given, clamped, rejected for a read-only
\* register, a register of another type or an unknown key.
WriteCalls ==
    { [op |-> "write_uint16", key |-> "system_mode", value |-> IntVal(1)],
      [op |-> "write_uint16", key |-> "system_mode", value |-> IntVal(300)],
      [op |-> "write_uint16", key |-> "heat_pump_mode", value |-> IntVal(1)],
      [op |-> "write_uint16", key |-> "no_such_register", value |-> IntVal(1)],
      [op |-> "write_uchar", key |-> "dhw_target_temp", value |-> IntVal(300)],
      [op |-> "write_uchar", key |-> "system_mode", value |-> IntVal(1)],
      [op |-> "write_float", key |-> "target_temp_heating", value |-> IntToFloat(20)],
      [op |-> "write_float", key |-> "outside_temp", value |-> IntToFloat(10)] }

\* write_uint16 / write_uchar / write_float called with one of WriteCalls.
WriteCall ==
    \E call \in WriteCalls :
        /\ nWrites < MaxWrites
        /\ ApplyWrite(call.op, call.key, call.value,
                      WritePlan(call.op, call.key, call.value))

\* Accessor writes of every kind, accepted, clamped, rejected or failed on the
\* bus, between and during poll cycles.
InitFrame ==
    /\ ClientInit
    /\ OneEntryLoaded
    /\ CodecOff
    /\ deviceUp \in BOOLEAN
    /\ NoFault
    /\ device = NominalDevice

NextFrame == WriteCall \/ FetchConnect \/ FetchSweep \/ FetchReturn

SpecFrame == InitFrame /\ [][NextFrame]_vars

(***************************************************************************)
(* sensor.py: the value an IdmGenericSensor presents.                      *)
(***************************************************************************)
\* A float rounded to two decimals, held as its number of hundredths.
DecVal(h) == [kind |-> "decimal", h |-> h]

\* round(value, 2) of a finite float: the multiple of 0.01 nearest to the
\* exact binary value, an exact tie going to the even multiple.
Round2(value) ==
    LET N   == (8388608 + value.m) * 100
        mag == IF value.e = 0 THEN 0
               ELSE IF value.e >= 150 THEN N * 2^(value.e - 150)
               ELSE IF value.e >= 120
                    THEN LET D == 2^(150 - value.e)
                             q == N \div D
                             r == N % D
                         IN  IF 2 * r > D \/ (2 * r = D /\ q % 2 = 1) THEN q + 1 ELSE q
               ELSE IF value.e = 119 /\ value.m > 2348810 THEN 1
               ELSE 0
    IN  DecVal(IF value.s = 1 THEN -mag ELSE mag)

\* abs(value) < 0.1: for a float, a magnitude below that of the nearest float
\* above 0.1 (exponent field 123, fraction 5033165).
AbsBelowTenth(value) ==
    IF value.kind = "float"
    THEN value.e * 8388608 + value.m < 123 * 8388608 + 5033165
    ELSE value.n = 0

\* math.isnan(value)
IsNan(value) == value.e = 255 /\ value.m # 0

\* Faulty variant of native_value: the TOTAL_INCREASING check is left out.
native_value_any_sign(register_key) ==
    LET value   == Get(data, register_key)
        reg_def == REGISTERS[register_key]
    IN  IF value = None \/ (value.kind = "float" /\ IsNan(value)) THEN None
        ELSE IF Eq(value, -1) /\ HasNonNegativeMin(reg_def) THEN None
        ELSE IF value.kind = "float" THEN Round2(value)
        ELSE value

\* IdmGenericSensor.native_value
native_value(register_key) ==
    LET value   == Get(data, register_key)
        reg_def == REGISTERS[register_key]
    IN  IF value = None \/ (value.kind = "float" /\ IsNan(value)) THEN None
        ELSE IF Eq(value, -1) /\ HasNonNegativeMin(reg_def) THEN None
        ELSE IF /\ reg_def.state_class = "TOTAL_INCREASING"
                /\ value.kind \in {"int", "float"}
                /\ Lt(value, 0)
             THEN IF AbsBelowTenth(value) THEN IntVal(0) ELSE None
        ELSE IF value.kind = "float" THEN Round2(value)
        ELSE value

\* The registers shown by a generic sensor with state class TOTAL_INCREASING.
TotalIncreasingKeys == { k \in Keys : REGISTERS[k].state_class = "TOTAL_INCREASING" }

\* The host reads the state of such a sensor from the published snapshot.
SensorRead ==
    \E key \in TotalIncreasingKeys :
        /\ lastOp' = [op |-> "native_value", key |-> key,
                      value |-> Get(data, key), ret |-> native_value(key)]
        /\ UNCHANGED <<envVars, fetchVars, busLog, nWrites, hostVars, setupVars, codecVars>>

\* Words of a FLOAT register, low word first: -1.0, -50.0, -0.05, -0.1,
\* the float just below 0.1 negated, -0.0, 0.0, 0.006, 0.125, 1.005, 20.5,
\* 999.0, NaN and -Infinity.
SensorRawWords ==
    { <<0, 49024>>, <<0, 49736>>, <<52429, 48460>>, <<52429, 48588>>,
      <<52428, 48588>>, <<0, 32768>>, <<0, 0>>, <<39846, 15300>>, <<0, 15872>>,
      <<41943, 16256>>, <<0, 16804>>, <<49152, 17529>>, <<0, 32704>>, <<0, 65408>> }

\* Poll cycles against a device one of whose TOTAL_INCREASING registers holds
\* an unusual value, and sensor reads of the snapshot.
InitSensor ==
    /\ ClientInit
    /\ OneEntryLoaded
    /\ CodecOff
    /\ deviceUp = TRUE
    /\ NoFault
    /\ device \in { SetRegister(NominalDevice, k, w) :
                       k \in TotalIncreasingKeys, w \in SensorRawWords }

NextSensor == FetchConnect \/ FetchSweep \/ FetchReturn \/ SensorRead

SpecSensor == InitSensor /\ [][NextSensor]_vars

\* Finite floats of every shape: zeros, subnormals, both signs, smallest and
\* largest exponents, fractions that use the low word and fractions that do not.
FiniteFloats ==
    { FloatVal(s, e, m) : s \in {0, 1}, e \in {0, 1, 122, 127, 130, 131, 254},
                          m \in {0, 1, 2097152, 5033165, 8388607} }

InitCodec ==
    /\ ClientInit
    /\ OneEntryLoaded
    /\ deviceUp = TRUE
    /\ NoFault
    /\ device = NominalDevice
    /\ codecPc = "input"
    /\ codecIn \in FiniteFloats
    /\ codecWords = <<>>
    /\ codecOut = None

NextCodec == EncodeFloat \/ DecodeFloat

SpecCodec == InitCodec /\ [][NextCodec]_vars

(***************************************************************************)
(* Properties.                                                             *)
(***************************************************************************)
\* The latest poll cycle has run to its end: data and fetchConn are its own.
PollDone == fetchPc = "idle" /\ fetchResult # "none"

\* The register definition has a minimum and it is not negative.
NonNegativeBound(k) ==
    REGISTERS[k].min_value # <<>> /\ REGISTERS[k].min_value[1] >= 0

\* C1: in a poll cycle in which the read of exactly one catalog register fails
\* (error response or exception) and every other read succeeds, the snapshot
\* holds unavailable under that register's key and the decoded value of every
\* other register.
C1_SingleFailureNeverAborts ==
    (PollDone /\ fetchConn = "ok" /\ faultMode \in {"error", "exception"}) =>
        \A k \in Keys :
            /\ k \in DOMAIN data
            /\ IF REGISTERS[k].address = faultAddr
               THEN data[k] = None
               ELSE data[k] = SweepEntry(k)

AcceptedWrite(op) ==
    /\ lastOp.op = op
    /\ lastOp.key \in Keys
    /\ REGISTERS[lastOp.key].access_type = "RW"
    /\ REGISTERS[lastOp.key].data_type \in
          (CASE op = "write_uint16" -> {"WORD", "UCHAR"}
             [] op = "write_uchar"  -> {"UCHAR"}
             [] op = "write_float"  -> {"FLOAT"})

HasBothBounds(k) == REGISTERS[k].min_value # <<>> /\ REGISTERS[k].max_value # <<>>

\* v clamped into [lo, hi], for integers.
ClampInt(v, lo, hi) == IF v < lo THEN lo ELSE IF v > hi THEN hi ELSE v

\* C3: a write to a writable register with both bounds defined always reaches
\* the bus, and the value sent is v when min <= v <= max, min when v < min and
\* max when v > max, so it lies within [min, max]; for write_uint16,
\* write_uchar and write_float.
C3_WritesClampToBounds ==
    /\ \A op \in {"write_uint16", "write_uchar"} :
          (AcceptedWrite(op) /\ HasBothBounds(lastOp.key)) =>
             LET lo == REGISTERS[lastOp.key].min_value[1]
                 hi == REGISTERS[lastOp.key].max_value[1]
             IN  /\ Len(busLog) = 1
                 /\ busLog[1].req = "write"
                 /\ busLog[1].address = REGISTERS[lastOp.key].address
                 /\ busLog[1].values = << ClampInt(lastOp.value.n, lo, hi) >>
                 /\ busLog[1].values[1] \in lo .. hi
    /\ (AcceptedWrite("write_float") /\ HasBothBounds(lastOp.key)) =>
          LET lo == REGISTERS[lastOp.key].min_value[1]
              hi == REGISTERS[lastOp.key].max_value[1]
              v  == FloatKey(lastOp.value)
              expected == IF v < FloatKey(IntToFloat(lo)) THEN IntToFloat(lo)
                          ELSE IF v > FloatKey(IntToFloat(hi)) THEN IntToFloat(hi)
                          ELSE lastOp.value
          IN  /\ Len(busLog) = 1
              /\ busLog[1].req = "write"
              /\ Len(busLog[1].values) = 2
              /\ UnpackFloat(busLog[1].values[1], busLog[1].values[2]) = expected
              /\ FloatKey(expected) >= FloatKey(IntToFloat(lo))
              /\ FloatKey(expected) <= FloatKey(IntToFloat(hi))

\* C3 witness: 999 written to a register with bounds [35, 95] went out as 95.
C3_Witness ==
    /\ lastOp.op = "write_uchar"
    /\ lastOp.key = "dhw_target_temp"
    /\ lastOp.value = IntVal(999)
    /\ Len(busLog) = 1
    /\ busLog[1].values = <<95>>
    /\ lastOp.ret = BoolVal(TRUE)

\* C4: for a UCHAR register the value sent is the input clamped to the bounds
\* first and masked to 8 bits second; 300 with bounds [35, 95] goes out as 95,
\* not as 300 & 0xFF = 44.
C4_UcharClampThenMask ==
    \A op \in {"write_uint16", "write_uchar"} :
        (AcceptedWrite(op) /\ REGISTERS[lastOp.key].data_type = "UCHAR"
            /\ HasBothBounds(lastOp.key)) =>
           LET lo == REGISTERS[lastOp.key].min_value[1]
               hi == REGISTERS[lastOp.key].max_value[1]
               v  == lastOp.value.n
           IN  /\ Len(busLog) = 1
               /\ busLog[1].values = << ClampInt(v, lo, hi) % 256 >>
               /\ (v > 255 /\ (v % 256) \in lo .. hi /\ (v % 256) # hi)
                     => busLog[1].values # << v % 256 >>

\* C4 witness: write_uchar of 300 to a register with bounds [35, 95] sent 95.
C4_Witness ==
    /\ lastOp.op = "write_uchar"
    /\ lastOp.key = "dhw_on_temp"
    /\ lastOp.value = IntVal(300)
    /\ Len(busLog) = 1
    /\ busLog[1].values = <<95>>

\* C5: a write call whose key is not in the catalog, or whose register is
\* read-only, returns failure, issues no bus request and leaves the device
\* registers as they were.
C5_RejectedWritesDoNothing ==
    [][ ( /\ nWrites' = nWrites + 1
          /\ lastOp'.op \in {"write_uint16", "write_uchar", "write_float"}
          /\ \/ lastOp'.key \notin Keys
             \/ REGISTERS[lastOp'.key].access_type = "RO" )
        => ( /\ lastOp'.ret = BoolVal(FALSE)
             /\ busLog' = <<>>
             /\ device' = device ) ]_vars

\* C5 witness: a write to a read-only register of matching type was made and
\* returned failure.
C5_Witness ==
    /\ lastOp.op = "write_uint16"
    /\ lastOp.key = "heat_pump_mode"
    /\ REGISTERS[lastOp.key].access_type = "RO"
    /\ lastOp.ret = BoolVal(FALSE)
    /\ nWrites = 1

\* C6: after a poll cycle every TOTAL_INCREASING register whose decoded value,
\* after the sentinel filter, is negative stands in the snapshot as 0.
C6_TotalIncreasingNegativeIsZero ==
    (PollDone /\ fetchConn = "ok" /\ data # EmptySnapshot) =>
        \A k \in Keys :
            ( /\ REGISTERS[k].state_class = "TOTAL_INCREASING"
              /\ SweepEntry(k) # None
              /\ Lt(SweepEntry(k), 0) )
            => Eq(data[k], 0)

\* What the float read of register k decodes now.
RawFloat(k) == _read_float_by_address(REGISTERS[k].address)

MinusOne == FloatVal(1, 127, 0)

\* C7 as stated: for a FLOAT register read in a poll cycle, -1.0 is stored as
\* unavailable exactly when the register has a minimum >= 0, and every other
\* finite value, and -1.0 otherwise, is stored unchanged.
C7_FloatSentinelOnly ==
    (PollDone /\ fetchConn = "ok" /\ data # EmptySnapshot) =>
        \A k \in Keys :
            (REGISTERS[k].data_type = "FLOAT" /\ RawFloat(k) # None) =>
                data[k] = IF RawFloat(k) = MinusOne /\ NonNegativeBound(k)
                          THEN None ELSE RawFloat(k)

\* C7 amended: as C7, except that a negative value of one of the five keys of
\* the energy safety check, when it is not the sentinel, is stored as 0.
C7_FloatSentinelAndEnergy ==
    (PollDone /\ fetchConn = "ok" /\ data # EmptySnapshot) =>
        \A k \in Keys :
            (REGISTERS[k].data_type = "FLOAT" /\ RawFloat(k) # None) =>
                data[k] =
                    IF RawFloat(k) = MinusOne /\ NonNegativeBound(k) THEN None
                    ELSE IF k \in {"energy_heating", "energy_cooling", "energy_dhw",
                                   "energy_total", "energy_meter_total"}
                            /\ FloatKey(RawFloat(k)) < 0
                         THEN IntVal(0)
                    ELSE RawFloat(k)

\* C7 witness: a cycle stored unavailable for a register with minimum 0 that
\* decoded to -1.0.
C7_Witness ==
    /\ PollDone
    /\ fetchConn = "ok"
    /\ "buffer_temp" \in DOMAIN data
    /\ RawFloat("buffer_temp") = MinusOne
    /\ data["buffer_temp"] = None

\* What the one-word read of register k returns now.
RawWord(k) == _read_uint16_by_address(REGISTERS[k].address)

\* C8: in a poll cycle a WORD register read as 65535, and a UCHAR register
\* whose word masks to 255, is stored as unavailable exactly when the register
\* has a minimum >= 0; every other word read is stored as it is (masked, for
\* UCHAR).
C8_WordAndUcharSentinel ==
    (PollDone /\ fetchConn = "ok" /\ data # EmptySnapshot) =>
        \A k \in Keys :
            /\ (REGISTERS[k].data_type = "WORD" /\ RawWord(k) # None) =>
                  data[k] = IF RawWord(k).n = 65535 /\ NonNegativeBound(k)
                            THEN None ELSE RawWord(k)
            /\ (REGISTERS[k].data_type = "UCHAR" /\ RawWord(k) # None) =>
                  data[k] = IF RawWord(k).n % 256 = 255 /\ NonNegativeBound(k)
                            THEN None ELSE IntVal(RawWord(k).n % 256)

\* C8 witness: system_mode (minimum 0) read 65535 and is unavailable in the
\* snapshot of a completed cycle.
C8_Witness ==
    /\ PollDone
    /\ fetchConn = "ok"
    /\ "system_mode" \in DOMAIN data
    /\ RawWord("system_mode") = IntVal(65535)
    /\ data["system_mode"] = None

\* C9: a finite float encoded by the write path and decoded from those same
\* words by the read path comes back as itself.
C9_FloatRoundTrip == codecPc = "decoded" => codecOut = codecIn

\* C10: read_uchar returns w & 0xFF for the word w the register holds, and
\* every UCHAR value in a snapshot is w & 0xFF, hence in 0 .. 255.
C10_UcharDecodeMasks ==
    /\ ( /\ lastOp.op = "read_uchar"
         /\ lastOp.key \in UcharKeys
         /\ RawWord(lastOp.key) # None )
       => lastOp.ret = IntVal(device[REGISTERS[lastOp.key].address] % 256)
    /\ (PollDone /\ data # EmptySnapshot) =>
          \A k \in UcharKeys :
              \/ data[k] = None
              \/ /\ data[k].kind = "int"
                 /\ data[k].n = device[REGISTERS[k].address] % 256
                 /\ data[k].n \in 0 .. 255

\* C10 witness: read_uchar of a register holding 300 returned 44, and a poll
\* cycle stored 44 for it.
C10_Witness ==
    /\ lastOp.op = "read_uchar"
    /\ lastOp.key = "dhw_target_temp"
    /\ device[REGISTERS["dhw_target_temp"].address] = 300
    /\ lastOp.ret = IntVal(44)
    /\ PollDone
    /\ "dhw_target_temp" \in DOMAIN data
    /\ data["dhw_target_temp"] = IntVal(44)

\* C11: in every poll cycle that completes its sweep, hvac_mode is fixed by the
\* snapshot's system_mode and heat_pump_mode: system_mode 0 gives off whatever
\* heat_pump_mode is; system_mode 1 or 5 gives heat when heat_pump_mode is 1,
\* cool when it is 2 and auto otherwise; any other system_mode, an unavailable
\* one included, gives off.
C11_HvacModeTable ==
    (PollDone /\ data # EmptySnapshot) =>
        LET sm == data["system_mode"]
            hp == data["heat_pump_mode"]
        IN  /\ "hvac_mode" \in DOMAIN data
            /\ data["hvac_mode"] =
                  StrVal(CASE sm = IntVal(0) -> "off"
                           [] sm \in {IntVal(1), IntVal(5)} /\ hp = IntVal(1) -> "heat"
                           [] sm \in {IntVal(1), IntVal(5)} /\ hp = IntVal(2) -> "cool"
                           [] sm \in {IntVal(1), IntVal(5)} /\ hp \notin {IntVal(1), IntVal(2)} -> "auto"
                           [] OTHER -> "off")

\* A cycle with system_mode 5 and the heat pump cooling.
C11_Witness ==
    /\ PollDone
    /\ data # EmptySnapshot
    /\ device[REGISTERS["system_mode"].address] = 5
    /\ data["system_mode"] = IntVal(5)
    /\ data["heat_pump_mode"] = IntVal(2)
    /\ data["hvac_mode"] = StrVal("cool")

\* C12: in every poll cycle that completes its sweep, hvac_state is one of off,
\* heating, cooling, idle and is fixed by the snapshot's heat_pump_mode alone:
\* 0 gives off, 1 heating, 2 cooling, anything else (4, 8, unavailable) idle.
C12_HvacStateTable ==
    (PollDone /\ data # EmptySnapshot) =>
        LET hp == data["heat_pump_mode"]
        IN  /\ "hvac_state" \in DOMAIN data
            /\ data["hvac_state"] \in
                  {StrVal("off"), StrVal("heating"), StrVal("cooling"), StrVal("idle")}
            /\ data["hvac_state"] =
                  StrVal(CASE hp = IntVal(0) -> "off"
                           [] hp = IntVal(1) -> "heating"
                           [] hp = IntVal(2) -> "cooling"
                           [] OTHER -> "idle")

\* A cycle in which the heat pump reports the DHW code 4.
C12_Witness ==
    /\ PollDone
    /\ data # EmptySnapshot
    /\ device[REGISTERS["heat_pump_mode"].address] = 4
    /\ data["heat_pump_mode"] = IntVal(4)
    /\ data["hvac_state"] = StrVal("idle")

\* C13: in every snapshot of a poll cycle that completes its sweep, a register
\* with an options table and a present value has "<key>_str" equal to the
\* label of the value, or "Unknown" when the value has no label; a register
\* with an options table and an unavailable value has no "<key>_str"; a
\* register without options has no "<key>_str".
C13_StringRepresentations ==
    (PollDone /\ data # EmptySnapshot) =>
        \A k \in Keys :
            LET options == REGISTERS[k].options
                str_key == k \o "_str"
            IN  IF DOMAIN options # {} /\ data[k] # None
                THEN /\ str_key \in DOMAIN data
                     /\ data[str_key] =
                          StrVal(IF data[k].n \in DOMAIN options
                                 THEN options[data[k].n] ELSE "Unknown")
                ELSE str_key \notin DOMAIN data

\* A cycle in which system_mode holds a code without a label and
\* heat_pump_mode a code with one.
C13_Witness ==
    /\ PollDone
    /\ data # EmptySnapshot
    /\ data["system_mode"] = IntVal(255)
    /\ data["system_mode_str"] = StrVal("Unknown")
    /\ data["heat_pump_mode_str"] = StrVal("Heating")
    /\ "outside_temp_str" \notin DOMAIN data

\* C14: no two catalog entries overlap in address space, a FLOAT entry taking
\* the addresses address and address + 1 and any other entry taking address;
\* stated over the entries a poll cycle has read.
C14_NoAddressOverlap ==
    LET read == { k \in Keys : \E i \in DOMAIN busLog :
                                  /\ busLog[i].req = "read"
                                  /\ busLog[i].address = REGISTERS[k].address }
        space(k) == REGISTERS[k].address ..
                        REGISTERS[k].address + WordsOf(REGISTERS[k].data_type) - 1
    IN  \A k1, k2 \in read : k1 # k2 => space(k1) \cap space(k2) = {}

\* C15: no two bus operations are in flight on the client at the same time:
\* while a poll cycle is between its connect() and its close(), no write has a
\* bus request outstanding.
C15_OneBusOperationAtATime ==
    ~(fetchPc \in {"sweep", "finally"} /\ writePc = "outstanding")

\* C16: a handler whose write succeeded asks for a refresh when it resumes;
\* a requested refresh leads to a poll cycle that starts after the request,
\* and a poll cycle that has started runs to its end and publishes.
C16_WriteThenRefresh ==
    /\ [][(writePc = "returned" /\ writePc' = "idle" /\ writeJob.ret = BoolVal(TRUE))
            => refreshPending']_vars
    /\ (refreshPending ~> ~refreshPending)
    /\ ((fetchPc # "idle") ~> (fetchPc = "idle"))

\* A switch was turned off, the write succeeded, and the cycle the handler
\* asked for has published the new value.
C16_Witness ==
    /\ writeJob.src = "switch"
    /\ writeJob.ret = BoolVal(TRUE)
    /\ writePc = "idle"
    /\ ~refreshPending
    /\ PollDone
    /\ writeJob.key \in DOMAIN data
    /\ data[writeJob.key] = IntVal(0)
    /\ writeJob.value = IntVal(0)

\* C17: a poll cycle that has started eventually returns a snapshot with the
\* connection closed; whenever a cycle has ended, it has returned (not raised)
\* and the connection is closed; and bus reads are issued only by a cycle that
\* has gone through its connect().
C17_CycleReturnsAndCloses ==
    /\ ((fetchPc # "idle") ~> (PollDone /\ fetchResult = "returned" /\ ~connected))
    /\ [](PollDone => (fetchResult = "returned" /\ ~connected))
    /\ [][(busLog' # busLog /\ busLog' # <<>>)
            => (fetchPc = "sweep" /\ fetchConn # "none")]_vars

\* A cycle whose sweep raised part-way (the read of a UCHAR register failed)
\* has returned the empty snapshot and closed the connection it had opened.
C17_Witness ==
    /\ PollDone
    /\ fetchConn = "ok"
    /\ faultAddr = REGISTERS["dhw_target_temp"].address
    /\ busLog # <<>>
    /\ Len(busLog) < Len(RegisterKeys)
    /\ fetchResult = "returned"
    /\ data = EmptySnapshot
    /\ ~connected

\* C18: a write opens the connection itself and closes it afterwards: with no
\* poll cycle running, the connection is open while the write's bus request is
\* outstanding and closed again once the write has returned.
C18_WriteOpensAndCloses ==
    /\ (writePc = "outstanding" /\ fetchPc = "idle") => connected
    /\ (writePc = "returned" /\ fetchPc = "idle") => ~connected

\* The keys of a complete snapshot.
IsComplete(d) == Keys \cup {"hvac_state", "hvac_mode"} \subseteq DOMAIN d

\* C19: the published snapshot is at every moment empty or complete, and it
\* changes only when a poll cycle returns, to the whole dictionary that cycle
\* built.
C19_SnapshotReplacedWholesale ==
    /\ [](data = EmptySnapshot \/ IsComplete(data))
    /\ [][data' # data => /\ fetchPc = "finally"
                          /\ fetchPc' = "idle"
                          /\ data' = fetchLocal.data]_vars

\* A cycle is part-way through its sweep, and the published snapshot is the
\* complete one of the cycle before, which differs from what the device holds
\* now.
C19_Witness ==
    /\ fetchPc = "sweep"
    /\ Cardinality(DOMAIN fetchLocal.data) = 30
    /\ IsComplete(data)
    /\ data["heat_pump_mode"] = IntVal(1)
    /\ fetchLocal.data["heat_pump_mode"] = IntVal(2)

\* C20: after a poll cycle that was aborted because the device is unreachable,
\* last_update_success is false.
C20_UnreachableMarksUnavailable ==
    (PollDone /\ ~deviceUp /\ fetchConn \in {"refused", "raised"}) => ~last_update_success

\* C21: the snapshot of a poll cycle that is not aborted has an entry, a
\* decoded number or unavailable, under every key of the catalog, has the two
\* composite keys hvac_state and hvac_mode, and beyond those holds only string
\* representations of catalog keys.
C21_EveryCatalogKeyPresent ==
    (PollDone /\ data # EmptySnapshot) =>
        /\ \A k \in Keys : k \in DOMAIN data /\ data[k].kind \in {"none", "int", "float"}
        /\ {"hvac_state", "hvac_mode"} \subseteq DOMAIN data
        /\ DOMAIN data \subseteq
              Keys \cup {"hvac_state", "hvac_mode"} \cup { k \o "_str" : k \in Keys }

\* A cycle in which the read of outside_temp failed: the key is there, as
\* unavailable, next to the composite keys.
C21_Witness ==
    /\ PollDone
    /\ faultAddr = REGISTERS["outside_temp"].address
    /\ faultMode = "error"
    /\ "outside_temp" \in DOMAIN data
    /\ data["outside_temp"] = None
    /\ data["hvac_state"] = StrVal("heating")
    /\ Cardinality(DOMAIN data) >= Cardinality(Keys) + 2

\* The bus request that writes 0 to error_state.
ResetRequest ==
    [req |-> "write", address |-> 1099, values |-> <<0>>, status |-> "outstanding"]

\* C22: a run of reset_error with an entry configured issues one bus write,
\* of the value 0 to address 1099, and the device changes at most in that
\* register; a run with no entry configured issues no bus write.
C22_ResetErrorWritesOnlyErrorState ==
    /\ [][(writePc = "idle" /\ writeJob' # writeJob /\ writeJob'.src = "service") =>
             IF entries = <<>>
             THEN busLog' = <<>> /\ writePc' = "idle" /\ device' = device
             ELSE busLog' = <<ResetRequest>> /\ writePc' = "outstanding"]_vars
    /\ [][(writeJob.src = "service" /\ writePc # "idle") =>
             /\ busLog' = busLog
             /\ device' \in {device, [device EXCEPT ![1099] = 0]}]_vars

\* reset_error has run with an entry configured: error_state holds 0 and the
\* one request on the bus was the write of 0 to 1099.
C22_Witness ==
    /\ writeJob.src = "service"
    /\ writeJob.ret = BoolVal(TRUE)
    /\ writePc = "idle"
    /\ entries # <<>>
    /\ busLog = <<ResetRequest>>
    /\ device[1099] = 0
    /\ \A a \in DOMAIN device : a # 1099 => device[a] = NominalDevice[a]

\* C29: whenever no set-up is in progress, the two services are registered
\* if and only if at least one entry is loaded.
C29_ServicesIffEntryLoaded ==
    (\A e \in EntryIds : setupPc[e] \in {"none", "loaded"}) =>
        (services <=> LoadedEntries # {})

C24_FloatReadUnavailable ==
    \A k \in Keys :
        LET a      == REGISTERS[k].address
            failed == ~deviceUp \/ (faultAddr = a /\ faultMode \in FaultModes)
            nanInf == (device[a + 1] \div 128) % 256 = 255
        IN  (REGISTERS[k].data_type = "FLOAT" /\ (failed \/ nanInf)) =>
               /\ read_float(k) = None
               /\ (PollDone /\ data # EmptySnapshot) => data[k] = None

\* A cycle in which outside_temp, whose minimum is negative, read as
\* -Infinity and was stored as unavailable.
C24_Witness ==
    /\ PollDone
    /\ data # EmptySnapshot
    /\ device[REGISTERS["outside_temp"].address] = 0
    /\ device[REGISTERS["outside_temp"].address + 1] = 65408
    /\ data["outside_temp"] = None

\* The read request the catalog prescribes for the i-th register: two words
\* for FLOAT, one word for WORD and UCHAR.
CatalogRead(i) ==
    [req |-> "read", address |-> REGISTERS[RegisterKeys[i]].address,
     count |-> IF REGISTERS[RegisterKeys[i]].data_type = "FLOAT" THEN 2 ELSE 1]

\* The step with which the try body of a poll cycle ends.
TryBodyEnds == fetchPc # "finally" /\ fetchPc' = "finally"

\* C25 as stated: when the try body of a poll cycle ends, every catalog
\* register has caused exactly one read request, of the prescribed size.
C25_ExactlyOneReadEach ==
    [][TryBodyEnds => busLog' = [i \in 1 .. Len(RegisterKeys) |-> CatalogRead(i)]]_vars

\* C25 as amended: no bus operation is retried.  The reads of a poll cycle are
\* one request of the prescribed size per register, in catalog order, for an
\* initial stretch of the catalog: all of it when the sweep completes, the
\* registers up to the pass that raised otherwise, none when connect() raised.
\* A write call issues at most one write request, and none is added while it
\* is outstanding or after it has returned.
C25_NoRetry ==
    /\ [][TryBodyEnds =>
             /\ \E n \in 0 .. Len(RegisterKeys) :
                    busLog' = [i \in 1 .. n |-> CatalogRead(i)]
             /\ fetchLocal'.data # EmptySnapshot => Len(busLog') = Len(RegisterKeys)
             /\ fetchConn' = "raised" => busLog' = <<>>]_vars
    /\ [][nWrites' = nWrites + 1 =>
             /\ Len(busLog') <= 1
             /\ \A i \in DOMAIN busLog' : busLog'[i].req = "write"]_vars
    /\ [][(writePc # "idle" /\ writePc' # writePc) => busLog' = busLog]_vars

\* The sweep has ended after the read of outside_temp failed: the register was
\* asked for once, as was every other.
C25_Witness ==
    /\ fetchPc = "finally"
    /\ faultAddr = REGISTERS["outside_temp"].address
    /\ Len(busLog) = Len(RegisterKeys)
    /\ busLog[1] = CatalogRead(1)
    /\ busLog[2] # CatalogRead(1)
    /\ fetchLocal.data["outside_temp"] = None

\* The executor job of a UCHAR number entity.
UcharNumberJob ==
    /\ writeJob.src = "number"
    /\ writeJob.op = "write_uchar"

\* C26: setting a UCHAR number entity to v sends to the bus exactly what
\* write_uchar(key, int(v)) would send; the entity's own int(v) & 0xFF does
\* not change the written value.
C26_EntityMaskIsHarmless ==
    UcharNumberJob =>
        \A v \in NumberInputs :
            writeJob.value = IntVal(And0xFF(v)) =>
                writeJob.plan = write_uchar(writeJob.key, IntVal(v))

\* What the pass for `key` stores when the device answers its read in full.
AnsweredEntry(key) ==
    LET reg_def == REGISTERS[key]
        a       == reg_def.address
    IN  CASE reg_def.data_type = "FLOAT" ->
                LET value == RegistersToFloat(<< device[a], device[a + 1] >>)
                IN  IF FloatSentinel(value, reg_def) THEN None ELSE value
          [] reg_def.data_type = "WORD" ->
                IF WordSentinel(IntVal(device[a]), reg_def) THEN None ELSE IntVal(device[a])
          [] reg_def.data_type = "UCHAR" ->
                LET value == IntVal(And0xFF(device[a]))
                IN  IF UcharSentinel(value, reg_def) THEN None ELSE value

\* The snapshot of a cycle in which every read is answered, except that
\* `missing` has no value.
SnapshotMissing(missing) ==
    AddHvac(AddStringRepresentations(NegativeEnergyToZero(
        [k \in Keys |-> IF k = missing THEN None ELSE AnsweredEntry(k)])))

\* The read of register k, a FLOAT or WORD one, fails on a reachable device.
ReadFails(k) ==
    /\ deviceUp
    /\ REGISTERS[k].data_type \in {"FLOAT", "WORD"}
    /\ faultAddr = REGISTERS[k].address
    /\ faultMode \in {"error", "exception"}

\* C27: when the read of a FLOAT or WORD register fails and every UCHAR read
\* succeeds, the cycle is not aborted: the register's key is in the snapshot
\* with the value None, and every other key, derived keys included, has the
\* value it would have if only that register were missing.
C27_FailedReadLosesOnlyThatRegister ==
    \A k \in Keys :
        (PollDone /\ ReadFails(k)) =>
            /\ fetchResult = "returned"
            /\ k \in DOMAIN data
            /\ data[k] = None
            /\ data = SnapshotMissing(k)

\* The read of system_mode failed: the snapshot has the key without a value,
\* the other registers' values, and an hvac_mode derived without it.
C27_Witness ==
    /\ PollDone
    /\ ReadFails("system_mode")
    /\ data["system_mode"] = None
    /\ data["outside_temp"] # None
    /\ data["hvac_mode"] = StrVal("off")

\* The step of a poll cycle that hands its result to the host.
CycleCompletes == fetchPc = "finally" /\ fetchPc' = "idle"

\* A call of write_uint16, write_uchar or write_float returns.
WriteCallReturns == nWrites' = nWrites + 1

\* C28: a write call, whether it is sent as given, clamped, rejected or fails
\* on the bus, leaves the published snapshot as it was; the snapshot changes
\* only in the step that completes a poll cycle.
C28_WritesLeaveSnapshot ==
    /\ [][WriteCallReturns => data' = data]_vars
    /\ [][data' # data => CycleCompletes]_vars

\* A write reached the device after a cycle published its snapshot: the
\* register holds the new word, the snapshot the value polled before.
C28_Witness ==
    /\ PollDone
    /\ data # EmptySnapshot
    /\ lastOp.op = "write_uint16"
    /\ lastOp.key = "system_mode"
    /\ lastOp.ret = BoolVal(TRUE)
    /\ data["system_mode"] # IntVal(device[REGISTERS["system_mode"].address])

\* The latest operation was the read of a TOTAL_INCREASING sensor's state.
SensorShown == lastOp.op = "native_value"

\* A presented value that is zero or above.
ShownNonNegative(shown) ==
    CASE shown.kind = "int"     -> shown.n >= 0
      [] shown.kind = "decimal" -> shown.h >= 0
      [] OTHER                  -> FALSE

\* A snapshot value below zero.
SnapshotNegative(value) == value.kind \in {"int", "float"} /\ Lt(value, 0)

\* C30: the value a generic sensor presents for a TOTAL_INCREASING register
\* is never negative: it is None or a number that is zero or above; a negative
\* snapshot value of magnitude below 0.1 is shown as 0, any other negative
\* snapshot value as None.
C30_TotalIncreasingNeverNegative ==
    SensorShown =>
        /\ lastOp.ret = None \/ ShownNonNegative(lastOp.ret)
        /\ (SnapshotNegative(lastOp.value) /\ AbsBelowTenth(lastOp.value))
               => lastOp.ret = IntVal(0)
        /\ (SnapshotNegative(lastOp.value) /\ ~AbsBelowTenth(lastOp.value))
               => lastOp.ret = None

\* The snapshot held -50.0 for solar_energy and the sensor showed None.
C30_Witness ==
    /\ SensorShown
    /\ lastOp.key = "solar_energy"
    /\ lastOp.value = FloatVal(1, 132, 4718592)
    /\ lastOp.ret = None
====
